---- MODULE Spec2Model ----
(***************************************************************************)
(* Relay loop of telegram_bot_chertkovsky.py: long polling of getUpdates,  *)
(* anonymous re-publication of every message to a fixed channel, private   *)
(* confirmation to the sender, in-memory offset (cursor).                  *)
(*                                                                         *)
(* Encoding.  A Python value that may be None, or a dict key that may be   *)
(* missing, is a set with at most one element: {} is None / missing, {v}   *)
(* is the value v.  The Cyrillic string literals of the source are written *)
(* in Latin transliteration.                                               *)
(***************************************************************************)
EXTENDS Integers, Sequences, FiniteSets, TLC

VARIABLES
    firstId,      \* the lowest update_id the server hands out
    envToken,     \* os.environ.get("BOT_TOKEN"): {} when the variable is unset
    envChannel,   \* os.environ.get("CHANNEL_ID"): {} when the variable is unset
    pc,           \* position of the process
    offset,       \* main's local `offset` (the cursor)
    updates,      \* updates.get("result", []) of the iteration being processed
    idx,          \* position of the for loop in `updates` (1-based)
    fetches,      \* number of getUpdates requests issued so far
    lastReq,      \* params["offset"] of the last getUpdates request ({} = omitted)
    resp,         \* outcome of the last get_updates call
    calls,        \* sendMessage requests issued in the current loop iteration
    pubStatus,    \* outcome of send_message for the update being processed
    ackStatus,    \* outcome of the confirmation request for that update
    published     \* update ids of the posts the channel has accepted so far

vars == <<firstId, envToken, envChannel, pc, offset, updates, idx, fetches, lastReq,
          resp, calls, pubStatus, ackStatus, published>>

-----------------------------------------------------------------------------
(* Bounds *)

MaxId == 1        \* update_id ranges over firstId .. firstId + MaxId
MaxBatch == 2     \* longest "result" list of one getUpdates response
MaxFetch == 3     \* getUpdates requests per process lifetime

-----------------------------------------------------------------------------
(* Optional values *)

None == {}
Some(v) == {v}
Val(o) == CHOOSE v \in o : TRUE

\* dict.get(key, default)
Get(o, default) == IF o = None THEN default ELSE Val(o)

-----------------------------------------------------------------------------
(* Configuration *)

TOKEN_PLACEHOLDER == "YOUR_BOT_TOKEN_HERE"
CHANNEL_PLACEHOLDER == "YOUR_CHANNEL_ID_HERE"

EnvValues(placeholder) == {None, Some(""), Some(placeholder), Some("set")}

BOT_TOKEN == Get(envToken, TOKEN_PLACEHOLDER)
CHANNEL_ID == Get(envChannel, CHANNEL_PLACEHOLDER)

TokenOk == ~(BOT_TOKEN = "" \/ BOT_TOKEN = TOKEN_PLACEHOLDER)
ChannelOk == ~(CHANNEL_ID = "" \/ CHANNEL_ID = CHANNEL_PLACEHOLDER)
\* mutant: the CHANNEL_ID check of lines 147-150 is left out
ConfigOkTokenOnly == TokenOk
ConfigOk == TokenOk /\ ChannelOk

-----------------------------------------------------------------------------
(* build_forward_text *)

TEXT_LABEL == "<b>Soobshchenie:</b> "
LOCATION_LABEL == "<b>Mestopolozhenie:</b> "
EMPTY_PLACEHOLDER == "(pustoe soobshchenie)"
CONFIRM_TEXT == "Spasibo! Vashe soobshchenie otpravleno anonimno."

\* str() of a float, held as <<integer part, digits after the point>>, or of
\* None (location.get returns None for a missing key)
PyStr(o) == IF o = None THEN "None"
            ELSE ToString(Val(o)[1]) \o "." \o ToString(Val(o)[2])

\* truthiness of an optional string: None and "" are falsy
TruthyStr(o) == o # None /\ Val(o) # ""

\* a dict is falsy iff it has no keys
DictEmpty(rec) == \A k \in DOMAIN rec : rec[k] = None

\* mutant: the caption is never looked at
TextOfTextOnly(m) == m.text
\* message.get("text") or message.get("caption")
TextOf(m) == IF TruthyStr(m.text) THEN m.text ELSE m.caption

\* mutant: the sender's user id is put in front of the text
TextPartSigned(m) ==
    IF TruthyStr(TextOf(m))
    THEN <<TEXT_LABEL \o (IF m.from = None THEN "" ELSE ToString(Val(m.from)) \o ": ")
                      \o Val(TextOf(m))>>
    ELSE <<>>
TextPart(m) == IF TruthyStr(TextOf(m))
               THEN <<TEXT_LABEL \o Val(TextOf(m))>> ELSE <<>>

\* mutant: longitude first
LocationPartLonLat(m) ==
    IF m.location # None /\ ~DictEmpty(Val(m.location))
    THEN <<LOCATION_LABEL \o PyStr(Val(m.location).longitude) \o ", "
                          \o PyStr(Val(m.location).latitude)>>
    ELSE <<>>
LocationPart(m) ==
    IF m.location # None /\ ~DictEmpty(Val(m.location))
    THEN <<LOCATION_LABEL \o PyStr(Val(m.location).latitude) \o ", "
                          \o PyStr(Val(m.location).longitude)>>
    ELSE <<>>

RECURSIVE Join(_)
Join(parts) == IF Len(parts) = 0 THEN ""
               ELSE IF Len(parts) = 1 THEN parts[1]
               ELSE parts[1] \o "\n" \o Join(Tail(parts))

\* mutant: lines 128-130 are missing
build_forward_textNoPlaceholder(m) == Join(TextPart(m) \o LocationPart(m))
build_forward_text(m) ==
    LET parts == TextPart(m) \o LocationPart(m)
    IN  Join(IF parts = <<>> THEN <<EMPTY_PLACEHOLDER>> ELSE parts)

-----------------------------------------------------------------------------
(* Updates returned by getUpdates *)

UpdateIds == firstId..(firstId + MaxId)

Message(text, caption, location, chat, from) ==
    [text |-> text, caption |-> caption, location |-> location,
     chat |-> chat, from |-> from]

Location == [latitude |-> Some(<<47, 5>>), longitude |-> Some(<<40, 25>>)]

\* "message": {}
MsgNoFields == Message(None, None, None, None, None)
\* a message with a sender and an origin chat but no text, caption or location
MsgNoContent == Message(None, None, None, Some([id |-> Some(999)]), Some(7))
MsgText == Message(Some("T"), None, None, Some([id |-> Some(999)]), Some(7))
MsgCaptionLocation ==
    Message(None, Some("C"), Some(Location), Some([id |-> Some(998)]), Some(8))
MsgAll == Message(Some("T"), Some("C"), Some(Location), Some([id |-> Some(998)]),
                  Some(8))
\* a message whose "chat" key is missing
MsgNoChat == Message(Some("T"), None, None, None, Some(7))

\* the messages the loop is fed with
LoopMessages == {MsgNoFields, MsgNoContent, MsgText, MsgNoChat}

\* one element of "result": both keys may be missing
Events == [update_id : {None} \cup {Some(i) : i \in UpdateIds},
           message : {None} \cup {Some(m) : m \in LoopMessages}]

\* update.get("message", {}) followed by `not message`
NoMessage(e) == IF e.message = None THEN TRUE ELSE DictEmpty(Val(e.message))

\* mutant: the confirmation goes to the sender's user id
ChatIdOfSender(m) == m.from
\* message.get("chat", {}).get("id")
ChatId(m) == IF m.chat = None THEN None ELSE Val(m.chat).id

\* The server's side of getUpdates: update ids ascend within a response and,
\* when the request carried an offset, none is below it.
ServerOrder(b, param) ==
    /\ \A i \in DOMAIN b :
          (b[i].update_id # None /\ param # None)
              => Val(b[i].update_id) >= Val(param)
    /\ \A i, j \in DOMAIN b :
          (i < j /\ b[i].update_id # None /\ b[j].update_id # None)
              => Val(b[i].update_id) < Val(b[j].update_id)

Batches(param) ==
    UNION {{b \in [1..n -> Events] : ServerOrder(b, param)} : n \in 0..MaxBatch}

-----------------------------------------------------------------------------
(* get_updates, send_message and the confirmation request *)

\* get_updates: `if offset: params["offset"] = offset`
OffsetParam(o) == IF o # None /\ Val(o) # 0 THEN o ELSE None

PublishCall(text) == [op |-> "publish", channel |-> CHANNEL_ID, text |-> text]
ConfirmCall(chat_id) == [op |-> "confirm", chat |-> chat_id, text |-> CONFIRM_TEXT]

\* line 171: offset = update_id + 1 if update_id is not None else None
SkipOffset(update_id, o) ==
    IF update_id # None THEN Some(Val(update_id) + 1) ELSE None

\* mutant: the offset is set to the update's own id
AdvanceOffsetSameId(update_id, o) ==
    IF update_id # None THEN Some(Val(update_id)) ELSE o
\* lines 185-186: if update_id is not None: offset = update_id + 1
AdvanceOffset(update_id, o) ==
    IF update_id # None THEN Some(Val(update_id) + 1) ELSE o

-----------------------------------------------------------------------------
(* The process *)

\* Telegram numbers its updates from a positive integer on
Init ==
    /\ firstId = 1
    /\ envToken \in EnvValues(TOKEN_PLACEHOLDER)
    /\ envChannel \in EnvValues(CHANNEL_PLACEHOLDER)
    /\ pc = "start"
    /\ offset = None
    /\ updates = <<>>
    /\ idx = 1
    /\ fetches = 0
    /\ lastReq = None
    /\ resp = "none"
    /\ calls = <<>>
    /\ pubStatus = "none"
    /\ ackStatus = "none"
    /\ published = {}

\* main, lines 142-153: the configuration is complete, the loop is entered
StartOk ==
    /\ pc = "start"
    /\ ConfigOk
    /\ pc' = "fetch"
    /\ offset' = None
    /\ UNCHANGED <<firstId, envToken, envChannel, updates, idx, fetches,
                   lastReq, resp,
                   calls, pubStatus, ackStatus, published>>

\* main, lines 143-150: RuntimeError leaves main and ends the process
StartFail ==
    /\ pc = "start"
    /\ ~ConfigOk
    /\ pc' = "fatal"
    /\ UNCHANGED <<firstId, envToken, envChannel, offset, updates, idx,
                   fetches, lastReq,
                   resp, calls, pubStatus, ackStatus, published>>

\* what every get_updates call does before its outcome is known
Request ==
    /\ pc = "fetch"
    /\ fetches < MaxFetch
    /\ fetches' = fetches + 1
    /\ lastReq' = OffsetParam(offset)
    /\ UNCHANGED <<firstId, envToken, envChannel, calls, pubStatus, ackStatus,
                   published>>

\* lines 155-160: get_updates raises (transport error, HTTP error status, bad
\* JSON); sleep 5 and ask again
FetchRaises ==
    /\ Request
    /\ resp' = "raised"
    /\ updates' = <<>>
    /\ idx' = 1
    /\ pc' = "fetch"
    /\ UNCHANGED offset

\* mutant: the `continue` of line 165 is missing, "result" is processed
FetchNotOkNoContinue ==
    /\ Request
    /\ \E b \in Batches(OffsetParam(offset)) : updates' = b
    /\ resp' = "not_ok"
    /\ idx' = 1
    /\ pc' = "loop"
    /\ UNCHANGED offset

\* lines 162-165: the response has ok = false (or no "ok"); whatever "result"
\* it carries is not looked at; sleep 5 and ask again
FetchNotOk ==
    /\ Request
    /\ resp' = "not_ok"
    /\ updates' = <<>>
    /\ idx' = 1
    /\ pc' = "fetch"
    /\ UNCHANGED offset

\* lines 156, 162, 166: ok = true, the for loop starts on "result"
FetchOk ==
    /\ Request
    /\ \E b \in Batches(OffsetParam(offset)) : updates' = b
    /\ resp' = "ok"
    /\ idx' = 1
    /\ pc' = "loop"
    /\ UNCHANGED offset

\* lines 166, 188: the for loop is exhausted; sleep 1 and poll again.  The
\* response and the record of this iteration's requests are dropped here.
EndOfBatch ==
    /\ pc = "loop"
    /\ idx > Len(updates)
    /\ pc' = "fetch"
    /\ updates' = <<>>
    /\ idx' = 1
    /\ calls' = <<>>
    /\ pubStatus' = "none"
    /\ ackStatus' = "none"
    /\ UNCHANGED <<firstId, envToken, envChannel, offset, fetches, lastReq,
                   resp, published>>

\* lines 167-172: an update without a (non-empty) message is passed over
SkipEvent ==
    /\ pc = "loop"
    /\ idx <= Len(updates)
    /\ NoMessage(updates[idx])
    /\ offset' = SkipOffset(updates[idx].update_id, offset)
    /\ idx' = idx + 1
    /\ UNCHANGED <<firstId, envToken, envChannel, pc, updates, fetches,
                   lastReq, resp,
                   calls, pubStatus, ackStatus, published>>

\* lines 173-175 and send_message, lines 91-99: one POST to the channel.
\*   "ok"         the server accepted the post
\*   "http_error" raise_for_status raised inside the try: printed, dropped
\*   "raised"     requests.post itself raised (line 95 is outside the try):
\*                the exception leaves send_message, the loop and main
Publish(outcome) ==
    /\ pc = "loop"
    /\ idx <= Len(updates)
    /\ ~NoMessage(updates[idx])
    /\ LET e == updates[idx]
           forward_text == build_forward_text(Val(e.message))
       IN  /\ calls' = Append(calls, PublishCall(forward_text))
           /\ published' = IF outcome = "ok"
                            THEN published \cup e.update_id ELSE published
    /\ pubStatus' = outcome
    /\ pc' = IF outcome = "raised" THEN "crashed" ELSE "confirm"
    /\ UNCHANGED <<firstId, envToken, envChannel, offset, updates, idx,
                   fetches, lastReq,
                   resp, ackStatus>>

\* mutant: the confirmation is sent only when the post went through
ConfirmOnlyAfterSuccess(outcome) ==
    /\ pc = "confirm"
    /\ LET chat_id == ChatId(Val(updates[idx].message))
       IN  IF chat_id # None /\ pubStatus = "ok"
           THEN /\ calls' = Append(calls, ConfirmCall(Val(chat_id)))
                /\ ackStatus' = outcome
                /\ pc' = IF outcome = "raised" THEN "crashed" ELSE "advance"
           ELSE /\ outcome = "ok"
                /\ pc' = "advance"
                /\ UNCHANGED <<calls, ackStatus>>
    /\ UNCHANGED <<firstId, envToken, envChannel, offset, updates, idx,
                   fetches, lastReq, resp, pubStatus, published>>

\* lines 177-183: the confirmation to the origin chat; the response is never
\* looked at, an exception of requests.post is not caught
Confirm(outcome) ==
    /\ pc = "confirm"
    /\ LET chat_id == ChatId(Val(updates[idx].message))
       IN  IF chat_id # None
           THEN /\ calls' = Append(calls, ConfirmCall(Val(chat_id)))
                /\ ackStatus' = outcome
                /\ pc' = IF outcome = "raised" THEN "crashed" ELSE "advance"
           ELSE /\ outcome = "ok"
                /\ pc' = "advance"
                /\ UNCHANGED <<calls, ackStatus>>
    /\ UNCHANGED <<firstId, envToken, envChannel, offset, updates, idx,
                   fetches, lastReq,
                   resp, pubStatus, published>>

\* lines 185-186, then the next element of the for loop
Advance ==
    /\ pc = "advance"
    /\ offset' = AdvanceOffset(updates[idx].update_id, offset)
    /\ idx' = idx + 1
    /\ pc' = "loop"
    /\ pubStatus' = "none"
    /\ ackStatus' = "none"
    /\ UNCHANGED <<firstId, envToken, envChannel, updates, fetches, lastReq,
                   resp,
                   calls, published>>

\* lines 191-195: KeyboardInterrupt at any point of main
Interrupt ==
    /\ pc \in {"start", "fetch", "loop", "confirm", "advance"}
    /\ pc' = "stopped"
    /\ UNCHANGED <<firstId, envToken, envChannel, offset, updates, idx,
                   fetches, lastReq,
                   resp, calls, pubStatus, ackStatus, published>>

Outcomes == {"ok", "http_error", "raised"}

Next ==
    \/ StartOk
    \/ StartFail
    \/ FetchRaises
    \/ FetchNotOk
    \/ FetchOk
    \/ EndOfBatch
    \/ SkipEvent
    \/ \E outcome \in Outcomes : Publish(outcome)
    \/ \E outcome \in Outcomes : Confirm(outcome)
    \/ Advance
    \/ Interrupt

Spec == Init /\ [][Next]_vars

TypeOK ==
    /\ pc \in {"start", "fatal", "fetch", "loop", "confirm", "advance",
               "crashed", "stopped"}
    /\ offset \in {None} \cup {Some(i + 1) : i \in UpdateIds}
    /\ idx \in 1..(Len(updates) + 1)
    /\ fetches \in 0..MaxFetch

-----------------------------------------------------------------------------
(* Properties *)

Range(f) == {f[i] : i \in DOMAIN f}
Failed == {"raised", "not_ok"}
Terminal == {"fatal", "crashed", "stopped"}

\* the update the for loop is at
Current == updates[idx]
AtUpdate == idx <= Len(updates)
\* this step ends the processing of the current update
FinishesUpdate == AtUpdate /\ idx' = idx + 1

\* C1: no update with an update_id is posted to the channel twice: a post the
\* channel accepts is never for an update_id it has already accepted.
C1_AtMostOnce ==
    [][(pc = "loop" /\ pc' = "confirm" /\ pubStatus' = "ok"
            /\ Current.update_id # None)
          => Val(Current.update_id) \notin published]_vars

\* C2: once the offset is an integer, no step makes it None or smaller.
C2_CursorMonotonic ==
    [][offset # None => (offset' # None /\ Val(offset') >= Val(offset))]_vars

\* C3: finishing an update that has no update_id leaves the offset as it was.
C3_NoIdKeepsCursor ==
    [][(FinishesUpdate /\ Current.update_id = None) => offset' = offset]_vars

\* C4: whenever the loop has just finished an update with update_id u (with or
\* without a message), the offset is u + 1.
C4_CursorAfterUpdate ==
    (pc = "loop" /\ idx > 1 /\ updates[idx - 1].update_id # None)
        => offset = Some(Val(updates[idx - 1].update_id) + 1)

\* a batch of two is done: the first update was published and confirmed, the
\* second had no message; the offset is the second update_id + 1
C4_Witness ==
    /\ pc = "loop" /\ idx = 3 /\ Len(updates) = 2
    /\ updates[1].update_id # None /\ ~NoMessage(updates[1])
    /\ updates[2].update_id # None /\ updates[2].message = None
    /\ Len(calls) = 2
    /\ offset = Some(Val(updates[2].update_id) + 1)

\* C5: a get_updates call that raises or returns ok = false is followed by no
\* sendMessage request, leaves the offset unchanged and leads back to
\* get_updates; the request that follows it carries the same offset parameter.
C5_FetchFailure ==
    [][/\ (fetches' = fetches + 1 /\ resp' \in Failed)
            => (offset' = offset /\ published' = published /\ pc' = "fetch")
       /\ resp' \in Failed => (calls' = <<>> /\ pc' \in {"fetch", "stopped"})
       /\ (fetches' = fetches + 1 /\ resp \in Failed)
            => (lastReq' = lastReq /\ lastReq' = OffsetParam(offset))]_vars

\* a request with an integer offset has failed after an earlier failure
C5_Witness ==
    /\ resp \in Failed /\ pc = "fetch" /\ fetches = 3
    /\ lastReq # None /\ offset = lastReq

\* C6: whatever way send_message fails, the loop goes on to the confirmation
\* and the offset update.
C6_PublishFailureNeverHalts ==
    pubStatus \in {"http_error", "raised"} => pc \in {"confirm", "advance", "stopped"}

\* C7: whatever way the confirmation request fails, the loop goes on to the
\* offset update.
C7_ConfirmFailureIgnored ==
    ackStatus \in {"http_error", "raised"} => pc \in {"advance", "stopped"}

\* the sendMessage requests due for the first n updates of the response:
\* per update with a message, one post of its text to the channel, then one
\* confirmation to message["chat"]["id"] when the message has one
RECURSIVE DueCalls(_)
DueCalls(n) ==
    IF n = 0 THEN <<>>
    ELSE LET e == updates[n]
             m == Val(e.message)
         IN  DueCalls(n - 1) \o
             (IF NoMessage(e) THEN <<>>
              ELSE <<[op |-> "publish", channel |-> CHANNEL_ID,
                      text |-> build_forward_text(m)]>> \o
                   (IF m.chat = None THEN <<>>
                    ELSE <<[op |-> "confirm", chat |-> Val(Val(m.chat).id),
                            text |-> CONFIRM_TEXT]>>))

CallsInOrder ==
    /\ pc \in {"start", "fetch"} => calls = <<>>
    /\ pc = "loop" => calls = DueCalls(idx - 1)
    /\ pc = "confirm" =>
          /\ calls = Append(DueCalls(idx - 1),
                            PublishCall(build_forward_text(Val(Current.message))))
          /\ SubSeq(DueCalls(idx), 1, Len(calls)) = calls
    /\ pc = "advance" => calls = DueCalls(idx)
    /\ pc \in {"crashed", "stopped"} =>
          /\ Len(calls) <= Len(DueCalls(Len(updates)))
          /\ SubSeq(DueCalls(Len(updates)), 1, Len(calls)) = calls

NoContent(m) == m.text = None /\ m.caption = None /\ m.location = None

\* C9: an update whose "message" key is present, with no text, caption or
\* location in it, is never passed over without a post of the placeholder.
C9_PlaceholderNeverSkipped ==
    [][(FinishesUpdate /\ Current.message # None /\ NoContent(Val(Current.message)))
          => (pc = "advance" /\ PublishCall(EMPTY_PLACEHOLDER) \in Range(calls))]_vars

\* C10: with BOT_TOKEN or CHANNEL_ID unset, empty or the placeholder, the
\* process never gets past the start: no getUpdates, no sendMessage.
C10_ConfigGate ==
    (envToken \in {None, Some(""), Some(TOKEN_PLACEHOLDER)}
        \/ envChannel \in {None, Some(""), Some(CHANNEL_PLACEHOLDER)})
    => /\ pc \in {"start", "fatal", "stopped"}
       /\ fetches = 0 /\ lastReq = None /\ resp = "none"
       /\ calls = <<>> /\ published = {}

\* the token is set, CHANNEL_ID is not: the process has ended with the error
C10_Witness ==
    pc = "fatal" /\ envToken = Some("set") /\ envChannel = None

-----------------------------------------------------------------------------
(* build_forward_text and the payload of send_message on their own *)

TextValues == {None, Some(""), Some("T"), Some("C")}

\* "location": {}
LocationNoFields == [latitude |-> None, longitude |-> None]
\* a location without "longitude"
LocationHalf == [latitude |-> Some(<<1, 0>>), longitude |-> None]
LocationOneTwo == [latitude |-> Some(<<1, 0>>), longitude |-> Some(<<2, 0>>)]
LocationValues == {None, Some(LocationNoFields), Some(LocationHalf),
                   Some(LocationOneTwo), Some(Location)}

TextMessages ==
    {Message(t, c, l, chat, from) :
        t \in TextValues, c \in TextValues, l \in LocationValues,
        chat \in {None, Some([id |-> Some(999)])}, from \in {Some(7), Some(8)}}

\* two messages are given, each goes through lines 173-175 and 91
InitText ==
    /\ firstId = 1
    /\ envToken = Some("set")
    /\ envChannel = Some("set")
    /\ pc = "text"
    /\ offset = None
    /\ updates \in {<<[update_id |-> None, message |-> Some(m1)],
                      [update_id |-> None, message |-> Some(m2)]>> :
                        m1 \in TextMessages, m2 \in TextMessages}
    /\ idx = 1
    /\ fetches = 0
    /\ lastReq = None
    /\ resp = "none"
    /\ calls = <<>>
    /\ pubStatus = "none"
    /\ ackStatus = "none"
    /\ published = {}

\* forward_text = build_forward_text(message); payload of send_message
BuildText ==
    /\ pc = "text"
    /\ idx <= Len(updates)
    /\ calls' = Append(calls,
                       PublishCall(build_forward_text(Val(updates[idx].message))))
    /\ idx' = idx + 1
    /\ pc' = IF idx = Len(updates) THEN "built" ELSE "text"
    /\ UNCHANGED <<firstId, envToken, envChannel, offset, updates, fetches,
                   lastReq, resp, pubStatus, ackStatus, published>>

NextText == BuildText

SpecText == InitText /\ [][NextText]_vars

\* the i-th message given and the text posted for it
Given(i) == Val(updates[i].message)
Posted(i) == calls[i].text

SameContent(m1, m2) ==
    m1.text = m2.text /\ m1.caption = m2.caption /\ m1.location = m2.location

\* C11: two messages with the same text, caption and location give the same
\* payload of send_message, whatever their sender and origin chat are.
C11_Anonymity ==
    (pc = "built" /\ SameContent(Given(1), Given(2))) => calls[1] = calls[2]

\* same content, another sender and another origin chat
C11_Witness ==
    /\ pc = "built"
    /\ Given(1).text = Some("T") /\ Given(1).location = Some(Location)
    /\ SameContent(Given(1), Given(2))
    /\ Given(1).from # Given(2).from /\ Given(1).chat # Given(2).chat
    /\ calls[1] = calls[2]

\* the blocks as the claims word them
TextBlock(t) == TEXT_LABEL \o t
CoordStr(c) == ToString(c[1]) \o "." \o ToString(c[2])
HasCoords(l) ==
    IF l = None THEN FALSE
    ELSE Val(l).latitude # None /\ Val(l).longitude # None
LocationBlock(l) ==
    LOCATION_LABEL \o CoordStr(Val(Val(l).latitude)) \o ", "
                   \o CoordStr(Val(Val(l).longitude))
NonEmpty(o) == IF o = None THEN FALSE ELSE Val(o) # ""
\* "text (or caption)": the text when there is one, else the caption
TextOrCaption(m) == IF m.text # None THEN m.text ELSE m.caption
\* the text when it is a non-empty string, else the caption
NonEmptyTextOrCaption(m) == IF NonEmpty(m.text) THEN m.text ELSE m.caption

\* C12 as claimed: a message with only text T gives the text-block for T; a
\* message with text (or caption) T and a location gives the text-block, a
\* newline and the location-block, for every string T.
C12_BlockStructure ==
    \A i \in DOMAIN calls :
        LET m == Given(i)
        IN  /\ (m.text # None /\ m.caption = None /\ m.location = None)
                  => Posted(i) = TextBlock(Val(m.text))
            /\ (TextOrCaption(m) # None /\ HasCoords(m.location))
                  => Posted(i) = TextBlock(Val(TextOrCaption(m))) \o "\n"
                                     \o LocationBlock(m.location)

\* C12 amended: the same for every non-empty string T, where the caption
\* stands in for a text that is absent or empty.
C12_BlockStructureNonEmpty ==
    \A i \in DOMAIN calls :
        LET m == Given(i)
        IN  /\ (NonEmpty(m.text) /\ m.caption = None /\ m.location = None)
                  => Posted(i) = TextBlock(Val(m.text))
            /\ (NonEmpty(NonEmptyTextOrCaption(m)) /\ HasCoords(m.location))
                  => Posted(i) = TextBlock(Val(NonEmptyTextOrCaption(m))) \o "\n"
                                     \o LocationBlock(m.location)

\* text and location 1.0, 2.0; then text alone
C12_Witness ==
    /\ pc = "built"
    /\ Given(1).text = Some("T") /\ Given(1).location = Some(LocationOneTwo)
    /\ Posted(1) = "<b>Soobshchenie:</b> T\n<b>Mestopolozhenie:</b> 1.0, 2.0"
    /\ Given(2).text = Some("T") /\ Given(2).caption = None
    /\ Given(2).location = None
    /\ Posted(2) = "<b>Soobshchenie:</b> T"

\* the two messages differ at most in text and caption
SameButText(m1, m2) ==
    m1.location = m2.location /\ m1.chat = m2.chat /\ m1.from = m2.from

\* C13 as claimed: caption = C without text gives what text = C without
\* caption gives, for every string C; when text is present, the caption
\* makes no difference.
C13_CaptionFallback ==
    pc = "built" =>
        LET m1 == Given(1)
            m2 == Given(2)
        IN  /\ (m1.text = None /\ m1.caption # None /\ m2.text = m1.caption
                    /\ m2.caption = None /\ SameButText(m1, m2))
                  => calls[1] = calls[2]
            /\ (m1.text # None /\ m2.text = m1.text /\ SameButText(m1, m2))
                  => calls[1] = calls[2]

\* C13 amended: the caption makes no difference when text is present and
\* not the empty string.
C13_CaptionFallbackNonEmpty ==
    pc = "built" =>
        LET m1 == Given(1)
            m2 == Given(2)
        IN  /\ (m1.text = None /\ m1.caption # None /\ m2.text = m1.caption
                    /\ m2.caption = None /\ SameButText(m1, m2))
                  => calls[1] = calls[2]
            /\ (NonEmpty(m1.text) /\ m2.text = m1.text /\ SameButText(m1, m2))
                  => calls[1] = calls[2]

\* caption "C" alone and text "C" alone
C13_Witness ==
    /\ pc = "built"
    /\ Given(1).text = None /\ Given(1).caption = Some("C")
    /\ Given(2).text = Some("C") /\ Given(2).caption = None
    /\ SameButText(Given(1), Given(2))
    /\ Given(1).location = None
    /\ Posted(1) = "<b>Soobshchenie:</b> C"
    /\ Posted(2) = Posted(1)

\* C14: a message without text, caption and location gives the placeholder,
\* and no message gives the empty string.
C14_Placeholder ==
    \A i \in DOMAIN calls :
        /\ NoContent(Given(i)) => Posted(i) = EMPTY_PLACEHOLDER
        /\ Posted(i) # ""

C14_Witness ==
    /\ pc = "built"
    /\ NoContent(Given(1))
    /\ Posted(1) = "(pustoe soobshchenie)"

-----------------------------------------------------------------------------
(* The loop against a server that numbers its updates from -1 on *)

\* update_id is whatever integer the response carries
InitAnyIds ==
    /\ firstId \in {0 - 1, 1}
    /\ envToken \in EnvValues(TOKEN_PLACEHOLDER)
    /\ envChannel \in EnvValues(CHANNEL_PLACEHOLDER)
    /\ pc = "start"
    /\ offset = None
    /\ updates = <<>>
    /\ idx = 1
    /\ fetches = 0
    /\ lastReq = None
    /\ resp = "none"
    /\ calls = <<>>
    /\ pubStatus = "none"
    /\ ackStatus = "none"
    /\ published = {}

SpecAnyIds == InitAnyIds /\ [][Next]_vars

-----------------------------------------------------------------------------
(* Lifecycle and the confirmation after a failed post (checked under Spec) *)

InLoop == {"fetch", "loop", "confirm", "advance"}

\* C16: the loop is left only by an interrupt, which changes nothing but the
\* position of the process; once stopped, the process takes no further step.
C16_OnlyInterruptEndsLoop ==
    [][/\ (pc \in InLoop /\ pc' \notin InLoop)
            => /\ pc' = "stopped"
               /\ offset' = offset /\ calls' = calls /\ fetches' = fetches
               /\ published' = published
       /\ pc # "stopped"]_vars

\* C17: after a post that came back with an HTTP error status, as after one
\* that went through, the confirmation goes to the origin chat and the offset
\* is then set to update_id + 1.
C17_ConfirmIgnoresPublishOutcome ==
    [][/\ (pc = "confirm" /\ pubStatus \in {"ok", "http_error"}
               /\ pc' # "stopped" /\ Val(Current.message).chat # None)
            => /\ calls' = Append(calls,
                     [op |-> "confirm", text |-> CONFIRM_TEXT,
                      chat |-> Val(Val(Val(Current.message).chat).id)])
               /\ ackStatus' # "raised" => pc' = "advance"
       /\ (pc = "advance" /\ pubStatus \in {"ok", "http_error"}
               /\ pc' # "stopped")
            => /\ pc' = "loop" /\ idx' = idx + 1
               /\ offset' = IF Current.update_id # None
                            THEN Some(Val(Current.update_id) + 1) ELSE offset]_vars

\* the post of an update with an id came back with an HTTP error status and
\* the confirmation has gone to chat 999
C17_Witness ==
    /\ pc = "advance"
    /\ pubStatus = "http_error"
    /\ Current.update_id # None
    /\ calls # <<>>
    /\ calls[Len(calls)] = ConfirmCall(999)

-----------------------------------------------------------------------------
(* telegram_bot_chertkovsky_filled.py, as a step function on its own state  *)
(* [pc, offset, updates, idx, lastReq, calls]                               *)

F_CHANNEL_ID == "8142424816"

\* get_updates: `if offset: params["offset"] = offset`
F_OffsetParam(o) == IF o # None /\ Val(o) # 0 THEN o ELSE None

F_build_forward_text(message) ==
    LET text == IF TruthyStr(message.text) THEN message.text
                ELSE message.caption
        parts1 == IF TruthyStr(text) THEN <<TEXT_LABEL \o Val(text)>> ELSE <<>>
        location == message.location
        parts2 == IF location # None /\ ~DictEmpty(Val(location))
                  THEN Append(parts1,
                              LOCATION_LABEL \o PyStr(Val(location).latitude)
                                  \o ", " \o PyStr(Val(location).longitude))
                  ELSE parts1
    IN  Join(IF parts2 = <<>> THEN <<EMPTY_PLACEHOLDER>> ELSE parts2)

\* mutant: an update without update_id and message leaves the offset alone
F_SkipOffsetKeep(update_id, o) ==
    IF update_id # None THEN Some(Val(update_id) + 1) ELSE o
\* offset = update_id + 1 if update_id is not None else None
F_SkipOffset(update_id, o) ==
    IF update_id # None THEN Some(Val(update_id) + 1) ELSE None

\* main starts the loop without any check of the configuration
F_Start(st) == [st EXCEPT !.pc = "fetch", !.offset = None]

\* get_updates(offset=offset) and the two tests of its outcome
F_GetUpdates(st, status, result) ==
    LET asked == [st EXCEPT !.lastReq = F_OffsetParam(st.offset)]
    IN  IF status = "ok"
        THEN [asked EXCEPT !.updates = result, !.idx = 1, !.pc = "loop"]
        ELSE [asked EXCEPT !.updates = <<>>, !.idx = 1, !.pc = "fetch"]

\* one turn of the for loop up to send_message, or its end and time.sleep(1)
F_Loop(st, outcome) ==
    IF st.idx > Len(st.updates)
    THEN [st EXCEPT !.pc = "fetch", !.updates = <<>>, !.idx = 1, !.calls = <<>>]
    ELSE LET update == st.updates[st.idx]
             update_id == update.update_id
             empty == IF update.message = None THEN TRUE
                      ELSE DictEmpty(Val(update.message))
         IN  IF empty
             THEN [st EXCEPT !.offset = F_SkipOffset(update_id, st.offset),
                             !.idx = st.idx + 1]
             ELSE [st EXCEPT
                     !.calls = Append(st.calls,
                        [op |-> "publish", channel |-> F_CHANNEL_ID,
                         text |-> F_build_forward_text(Val(update.message))]),
                     !.pc = IF outcome = "raised" THEN "crashed" ELSE "confirm"]

\* chat_id = message.get("chat", {}).get("id") and the confirmation
F_Confirm(st, outcome) ==
    LET message == Val(st.updates[st.idx].message)
        chat_id == IF message.chat = None THEN None ELSE Val(message.chat).id
    IN  IF chat_id # None
        THEN [st EXCEPT
                !.calls = Append(st.calls,
                   [op |-> "confirm", chat |-> Val(chat_id),
                    text |-> CONFIRM_TEXT]),
                !.pc = IF outcome = "raised" THEN "crashed" ELSE "advance"]
        ELSE [st EXCEPT !.pc = "advance"]

\* if update_id is not None: offset = update_id + 1
F_Advance(st) ==
    LET update_id == st.updates[st.idx].update_id
    IN  [st EXCEPT !.offset = IF update_id # None
                              THEN Some(Val(update_id) + 1) ELSE st.offset,
                   !.idx = st.idx + 1,
                   !.pc = "loop"]

\* one step of the program on the input `in`:
\* [interrupt, status, result, publish, confirm]
F_Step(st, in) ==
    IF st.pc \in {"crashed", "stopped"} THEN st
    ELSE IF in.interrupt THEN [st EXCEPT !.pc = "stopped"]
    ELSE IF st.pc = "start" THEN F_Start(st)
    ELSE IF st.pc = "fetch" THEN F_GetUpdates(st, in.status, in.result)
    ELSE IF st.pc = "loop" THEN F_Loop(st, in.publish)
    ELSE IF st.pc = "confirm" THEN F_Confirm(st, in.confirm)
    ELSE F_Advance(st)

-----------------------------------------------------------------------------
(* The two variants side by side (checked under Spec) *)

\* the state of telegram_bot_chertkovsky.py as the other variant would hold
\* it: the same position, cursor, response and requests, its own channel
Mirror ==
    [pc |-> pc, offset |-> offset, updates |-> updates, idx |-> idx,
     lastReq |-> lastReq,
     calls |-> [i \in DOMAIN calls |->
                  IF calls[i].op = "publish"
                  THEN [calls[i] EXCEPT !.channel = F_CHANNEL_ID]
                  ELSE calls[i]]]

\* what the step under way feeds the program with
StepInput ==
    [interrupt |-> (pc' = "stopped"),
     status |-> resp',
     result |-> updates',
     publish |-> pubStatus',
     confirm |-> ackStatus']

\* C18: started with a full configuration and fed the same responses and
\* request outcomes, the other variant takes the very step this one takes:
\* same getUpdates offset, same posts, same confirmations, same cursor.  With
\* an incomplete configuration this one ends at the start, the other polls.
C18_VariantsAgree ==
    [][/\ ConfigOk => F_Step(Mirror, StepInput) = Mirror'
       /\ (pc = "start" /\ ~ConfigOk /\ pc' # "stopped")
            => (pc' = "fatal" /\ F_Step(Mirror, StepInput).pc = "fetch")]_vars

\* second iteration: a request with an integer offset has been answered, an
\* update was posted and confirmed, and both variants are about to write the
\* same cursor
C18_Witness ==
    /\ ConfigOk
    /\ pc = "advance" /\ fetches = 2 /\ lastReq # None
    /\ Len(calls) = 2
    /\ Current.update_id # None
    /\ F_Advance(Mirror).offset = AdvanceOffset(Current.update_id, offset)
    /\ F_Advance(Mirror).offset = Some(Val(Current.update_id) + 1)

====
